---------------------------- MODULE Spec2Model ----------------------------
(***************************************************************************)
(* Ant System foraging simulation (Scilana/AlgorithmsLab-1, heuristic/ACO). *)
(*                                                                         *)
(*   Position  src/unnamed/part_000 lines 1-149   (grid cell)              *)
(*   Ant       src/unnamed/part_000 lines 151-402 (foraging agent)         *)
(*   World     src/heuristic/ACO/entity/World.js lines 1-148 (grid)        *)
(*   driver    src/heuristic/ACO/entity/World.js lines 150-285 (_run, UI)  *)
(*                                                                         *)
(* src/heuristic/ACO/aco.js holds an older driver whose _run calls         *)
(* world.volatitlePheromone(), which World does not define; the driver     *)
(* modelled is the one that calls evaporateAndRender.                      *)
(*                                                                         *)
(* JavaScript numbers are modelled by exact values of the form             *)
(*      (n / d) * 10^(-e) * MAX_VALUE^lv        lv \in {-1, 0, 1}          *)
(* together with Infinity and NaN.  lv = 1 is the range of                 *)
(* Number.MAX_VALUE (a sum or product that exceeds MAX_VALUE overflows to  *)
(* Infinity, a finite addend of lv = 0 is absorbed), lv = -1 is the range  *)
(* of quotients x / MAX_VALUE (positive, below every value Math.random()   *)
(* returns except 0).  Rounding of the 53-bit mantissa is not modelled.    *)
(***************************************************************************)
EXTENDS Integers, Sequences, FiniteSets, TLC

---------------------------------------------------------------------------
(* Numbers *)

Abs(x) ==
    IF x < 0 THEN -x ELSE x

RECURSIVE GCD(_, _)
GCD(a, b) ==
    IF b = 0 THEN a ELSE GCD(b, a % b)

RECURSIVE Pow10(_)
Pow10(k) ==
    IF k = 0 THEN 1 ELSE 10 * Pow10(k - 1)

Zero ==
    [k |-> "num", lv |-> 0, n |-> 0, d |-> 1, e |-> 0]

Infinity ==
    [k |-> "inf", lv |-> 0, n |-> 0, d |-> 1, e |-> 0]

NaN ==
    [k |-> "nan", lv |-> 0, n |-> 0, d |-> 1, e |-> 0]

\* Canonical form of n / (d * 10^e): d coprime to 10, gcd(n, d) = 1,
\* and e = 0 or 10 does not divide n.
RECURSIVE Canon(_, _, _)
Canon(n, d, e) ==
    IF d % 2 = 0 THEN Canon(n * 5, d \div 2, e + 1)
    ELSE IF d % 5 = 0 THEN Canon(n * 2, d \div 5, e + 1)
    ELSE IF e > 0 /\ n % 10 = 0 THEN Canon(n \div 10, d, e - 1)
    ELSE <<n, d, e>>

Mk(n, d, e, lv) ==
    IF n = 0 THEN Zero
    ELSE LET g == GCD(Abs(n), d)
             c == Canon(n \div g, d \div g, e)
         IN  [k |-> "num", lv |-> lv, n |-> c[1], d |-> c[2], e |-> c[3]]

Rat(n, d) ==
    Mk(n, d, 0, 0)

Int2Num(i) ==
    Mk(i, 1, 0, 0)

IsNum(a) ==
    a.k = "num"

IsZero(a) ==
    a.k = "num" /\ a.n = 0

Sign(a) ==
    IF a.n > 0 THEN 1 ELSE IF a.n < 0 THEN -1 ELSE 0

\* Exponent gap beyond which two mantissas are not aligned: in every state
\* the model reaches n * d < 10^MantissaDigits, so a value whose exponent is
\* smaller by more than this gap is the larger one.
MantissaDigits ==
    5

\* Comparison of the coefficients of two positive values: -1, 0 or 1.
CoefCmp(a, b) ==
    LET m  == IF a.e < b.e THEN a.e ELSE b.e
        ga == b.e - m
        gb == a.e - m
        g  == GCD(a.d, b.d)
    IN  IF ga >= MantissaDigits THEN 1
        ELSE IF gb >= MantissaDigits THEN -1
        ELSE LET l == a.n * (b.d \div g) * Pow10(ga)
                 r == b.n * (a.d \div g) * Pow10(gb)
             IN  IF l < r THEN -1 ELSE IF l > r THEN 1 ELSE 0

\* Comparison of two "num" values: -1, 0 or 1.
Cmp(a, b) ==
    IF Sign(a) # Sign(b) THEN (IF Sign(a) < Sign(b) THEN -1 ELSE 1)
    ELSE IF Sign(a) = 0 THEN 0
    ELSE LET pa == [a EXCEPT !.n = Abs(a.n)]
             pb == [b EXCEPT !.n = Abs(b.n)]
             c  == IF a.lv # b.lv THEN (IF a.lv < b.lv THEN -1 ELSE 1)
                   ELSE CoefCmp(pa, pb)
         IN  c * Sign(a)

\* a < b, a <= b, a > b as JavaScript evaluates them (false on NaN).
Lt(a, b) ==
    CASE a.k = "nan" \/ b.k = "nan" -> FALSE
      [] a.k = "inf" -> FALSE
      [] b.k = "inf" -> TRUE
      [] OTHER -> Cmp(a, b) < 0

Le(a, b) ==
    CASE a.k = "nan" \/ b.k = "nan" -> FALSE
      [] b.k = "inf" -> TRUE
      [] a.k = "inf" -> FALSE
      [] OTHER -> Cmp(a, b) <= 0

Gt(a, b) ==
    Lt(b, a)

\* Overflow and underflow of a computed value of level lv.
Range(n, d, e, lv) ==
    LET v == Mk(n, d, e, lv)
    IN  IF IsZero(v) THEN Zero
        ELSE IF lv >= 2 THEN Infinity
        ELSE IF lv <= -2 THEN Zero
        ELSE IF lv = 1 /\ CoefCmp([v EXCEPT !.n = Abs(v.n)], Mk(1, 1, 0, 1)) > 0
             THEN Infinity
        ELSE v

\* a + b
Add(a, b) ==
    CASE a.k = "nan" \/ b.k = "nan" -> NaN
      [] a.k = "inf" \/ b.k = "inf" -> Infinity
      [] IsZero(a) -> b
      [] IsZero(b) -> a
      [] a.lv > b.lv -> a
      [] a.lv < b.lv -> b
      [] OTHER ->
           LET e == IF a.e > b.e THEN a.e ELSE b.e
               l == (a.d \div GCD(a.d, b.d)) * b.d
           IN  Range(a.n * (l \div a.d) * Pow10(e - a.e)
                       + b.n * (l \div b.d) * Pow10(e - b.e), l, e, a.lv)

\* a * b
Mul(a, b) ==
    CASE a.k = "nan" \/ b.k = "nan" -> NaN
      [] a.k = "inf" -> IF IsZero(b) THEN NaN ELSE Infinity
      [] b.k = "inf" -> IF IsZero(a) THEN NaN ELSE Infinity
      [] IsZero(a) \/ IsZero(b) -> Zero
      [] OTHER ->
           LET g1 == GCD(Abs(a.n), b.d)
               g2 == GCD(Abs(b.n), a.d)
           IN  Range((a.n \div g1) * (b.n \div g2), (a.d \div g2) * (b.d \div g1),
                     a.e + b.e, a.lv + b.lv)

\* a / b
Div(a, b) ==
    CASE a.k = "nan" \/ b.k = "nan" -> NaN
      [] a.k = "inf" -> IF b.k = "inf" THEN NaN ELSE Infinity
      [] b.k = "inf" -> Zero
      [] IsZero(b) -> IF IsZero(a) THEN NaN ELSE Infinity
      [] IsZero(a) -> Zero
      [] OTHER ->
           LET s  == IF b.n < 0 THEN -1 ELSE 1
               g1 == GCD(Abs(a.n), Abs(b.n))
               g2 == GCD(a.d, b.d)
               n  == s * (a.n \div g1) * (b.d \div g2)
               d  == (a.d \div g2) * (Abs(b.n) \div g1)
           IN  IF a.e >= b.e THEN Range(n, d, a.e - b.e, a.lv - b.lv)
               ELSE Range(n * Pow10(b.e - a.e), d, 0, a.lv - b.lv)

\* a - b
Sub(a, b) ==
    Add(a, Mul(Int2Num(-1), b))

RECURSIVE Pow(_, _)
Pow(a, k) ==
    IF k = 0 THEN Int2Num(1) ELSE Mul(a, Pow(a, k - 1))

---------------------------------------------------------------------------
(* Parameters of the run *)

\* window.innerWidth and window.innerHeight, which the #setBtn handler passes
\* to new World(width, height, 20).
VARIABLES
    width,
    height

\* The value of the input #paramAntNumber, and World.ANT_NUMBER, which the
\* #setBtn handler sets from it.
VARIABLES
    paramAntNumber,
    ANT_NUMBER

distance ==
    20

\* World.xl and World.yl: parseInt(width / distance), parseInt(height / distance)
xl ==
    width \div distance

yl ==
    height \div distance

\* The window of the explored runs, a grid of 3 x 3 cells, and the window of
\* the scenario with a grid of 5 x 5 cells.
SmallWindow ==
    <<60, 60>>

ScenarioWindow ==
    <<100, 100>>

\* Values read from the settings form by the #setBtn handler.
alpha ==
    1

beta ==
    2

rho ==
    Rat(9, 10)

Q ==
    100

tau0 ==
    Rat(1, 100)

maxPathLength ==
    3

maxPathLengthMax ==
    4

stepsPerTick ==
    2

\* Bounds of the exploration.
MaxMoves ==
    4

MaxChanges ==
    2

---------------------------------------------------------------------------
(* Position *)

TYPE_HOME ==
    2

TYPE_FOOD ==
    1

TYPE_NORMAL ==
    0

TYPE_BARRIER ==
    -1

P_TYPE_FOOD ==
    1001

P_TYPE_HOME ==
    1002

showPheromoneType ==
    P_TYPE_FOOD

MAX_VALUE ==
    Mk(1, 1, 0, 1)

\* The clamp threshold 1e-10 of evaporatePheromone.
Epsilon ==
    Mk(1, 1, 10, 0)

Null ==
    <<>>

Cells ==
    (0 .. xl - 1) \X (0 .. yl - 1)

\* Cells the user clicks on in the explored runs: the home cell, a corner and
\* an edge cell of the small grid; the cell (2, 0) of the scenario.
ClickCells ==
    IF <<width, height>> = ScenarioWindow THEN {<<2, 0>>}
    ELSE {<<1, 1>>, <<2, 2>>, <<1, 0>>}

\* new Position(world, x, y, fp, hp, type)
\* opacity is the opacity of the cell's DOM element (1 when none is set).
Position(fp, hp, type) ==
    [type |-> type, pheromone |-> (P_TYPE_FOOD :> fp) @@ (P_TYPE_HOME :> hp),
     opacity |-> Int2Num(1)]

getP(pos, pType) ==
    pos.pheromone[pType]

\* Position.prototype.move with deep = 1: the cell at the offset, or null.
Position_move(c, direction) ==
    LET x == c[1] + direction[1]
        y == c[2] + direction[2]
    IN  IF x < 0 \/ y < 0 \/ x >= xl \/ y >= yl THEN Null ELSE <<x, y>>

Clamp(v) ==
    IF Lt(v, Epsilon) THEN Zero ELSE v

evaporatePheromone(pos, r) ==
    IF pos.type = TYPE_NORMAL
    THEN [pos EXCEPT !.pheromone =
            (P_TYPE_FOOD :> Clamp(Mul(pos.pheromone[P_TYPE_FOOD], Sub(Int2Num(1), r))))
         @@ (P_TYPE_HOME :> Clamp(Mul(pos.pheromone[P_TYPE_HOME], Sub(Int2Num(1), r))))]
    ELSE pos

\* An addPheromone without the test of the cell type.
addPheromoneAnyType(pos, amount, pType) ==
    [pos EXCEPT !.pheromone[pType] = Add(@, amount)]

\* An addPheromone that takes the amount away.
addPheromoneNegated(pos, amount, pType) ==
    IF pos.type = TYPE_NORMAL
    THEN [pos EXCEPT !.pheromone[pType] = Sub(@, amount)]
    ELSE pos

addPheromone(pos, amount, pType) ==
    IF pos.type = TYPE_NORMAL
    THEN [pos EXCEPT !.pheromone[pType] = Add(@, amount)]
    ELSE pos

showPheromone(pos, maxVal, showType) ==
    IF pos.type = TYPE_NORMAL
    THEN LET p  == pos.pheromone[showType]
             a  == IF Gt(maxVal, Zero) THEN Div(p, maxVal) ELSE Zero
             a1 == IF Gt(a, Int2Num(1)) THEN Int2Num(1) ELSE a
         IN  [pos EXCEPT !.opacity = IF Lt(a1, Zero) THEN Zero ELSE a1]
    ELSE pos

\* A changeType that sets the type and leaves the pheromone as it is.
changeTypeKeep(pos, type) ==
    [pos EXCEPT !.type = type, !.opacity = Int2Num(1)]

changeType(pos, type) ==
    IF type = TYPE_BARRIER
    THEN Position(Zero, Zero, type)
    ELSE IF type = TYPE_FOOD
    THEN Position(MAX_VALUE, Zero, type)
    ELSE [pos EXCEPT !.type = type, !.opacity = Int2Num(1)]

---------------------------------------------------------------------------
(* World *)

\* World.prototype._init: the grid, with the home cell at its centre.
homeCell ==
    <<xl \div 2, yl \div 2>>

World_init ==
    [c \in Cells |->
        IF c = homeCell THEN Position(Zero, MAX_VALUE, TYPE_HOME)
        ELSE Position(Zero, Zero, TYPE_NORMAL)]

RECURSIVE getCheckedIndexFrom(_, _, _)
getCheckedIndexFrom(cl, position, i) ==
    IF i >= Len(cl) THEN -1
    ELSE IF cl[i + 1] = position THEN i
    ELSE getCheckedIndexFrom(cl, position, i + 1)

getCheckedIndex(cl, position) ==
    getCheckedIndexFrom(cl, position, 0)

\* checkList.splice(idx, 1)
Splice1(cl, idx) ==
    [j \in 1 .. Len(cl) - 1 |-> IF j <= idx THEN cl[j] ELSE cl[j + 1]]

\* An addCheckList that takes a listed cell off the list.
addCheckListToggle(cl, position) ==
    LET idx == getCheckedIndex(cl, position)
    IN  IF idx >= 0 THEN Splice1(cl, idx)
        ELSE Append(cl, position)

\* An addCheckList that pushes without the search for the cell.
addCheckListPush(cl, position) ==
    Append(cl, position)

addCheckList(cl, position) ==
    LET idx == getCheckedIndex(cl, position)
    IN  IF idx >= 0 THEN Append(Splice1(cl, idx), position)
        ELSE Append(cl, position)

\* First loop of evaporateAndRender: the map after evaporation of the listed
\* cells, in list order.
RECURSIVE EvaporateFrom(_, _, _)
EvaporateFrom(m, cl, i) ==
    IF i > Len(cl) THEN m
    ELSE EvaporateFrom([m EXCEPT ![cl[i]] = evaporatePheromone(@, rho)], cl, i + 1)

\* maxP of evaporateAndRender, over the evaporated map.
RECURSIVE MaxPFrom(_, _, _, _)
MaxPFrom(m, cl, i, maxP) ==
    IF i > Len(cl) THEN maxP
    ELSE LET pos == m[cl[i]]
             p   == getP(pos, showPheromoneType)
         IN  MaxPFrom(m, cl, i + 1,
                      IF pos.type = TYPE_NORMAL /\ Gt(p, maxP) THEN p ELSE maxP)

\* A renderMax that is never below 1.
renderMaxFloorOne(m, cl) ==
    LET maxP == MaxPFrom(m, cl, 1, Zero)
    IN  IF Gt(maxP, Int2Num(1)) THEN maxP ELSE Int2Num(1)

renderMax(m, cl) ==
    LET maxP == MaxPFrom(m, cl, 1, Zero)
    IN  IF Gt(maxP, Zero) THEN maxP ELSE Int2Num(1)

InList(cl, c) ==
    \E j \in 1 .. Len(cl) : cl[j] = c

evaporateAndRender(m, cl) ==
    LET m1 == EvaporateFrom(m, cl, 1)
        rm == renderMax(m1, cl)
    IN  [c \in DOMAIN m |->
            IF InList(cl, c) THEN showPheromone(m1[c], rm, showPheromoneType)
            ELSE m1[c]]

---------------------------------------------------------------------------
(* Ant *)

STATUS_FIND_FOOD ==
    0

STATUS_CARRY_FOOD ==
    1

\* Direction.M: the eight unit and diagonal offsets, clockwise from "up".
DirectionM ==
    << <<0, -1>>, <<1, -1>>, <<1, 0>>, <<1, 1>>,
       <<0, 1>>, <<-1, 1>>, <<-1, 0>>, <<-1, -1>> >>

\* Ant.prototype._init: the values of _maxPath that Math.random() can give.
MaxPathSamples ==
    maxPathLength .. maxPathLengthMax

\* An _init that leaves the ant carrying food.
Ant_initCarrying(home, maxPath) ==
    [path |-> <<home>>, status |-> STATUS_CARRY_FOOD, homePosition |-> home,
     maxPath |-> maxPath]

Ant_init(home, maxPath) ==
    [path |-> <<home>>, status |-> STATUS_FIND_FOOD, homePosition |-> home,
     maxPath |-> maxPath]

\* A _getNeighbors that keeps the barrier cells.
RECURSIVE getNeighborsAllFrom(_, _)
getNeighborsAllFrom(position, i) ==
    IF i > Len(DirectionM) THEN <<>>
    ELSE LET np   == Position_move(position, DirectionM[i])
             rest == getNeighborsAllFrom(position, i + 1)
         IN  IF np # Null THEN <<np>> \o rest ELSE rest

getNeighborsAll(m, position) ==
    getNeighborsAllFrom(position, 1)

RECURSIVE getNeighborsFrom(_, _, _)
getNeighborsFrom(m, position, i) ==
    IF i > Len(DirectionM) THEN <<>>
    ELSE LET np   == Position_move(position, DirectionM[i])
             rest == getNeighborsFrom(m, position, i + 1)
         IN  IF np # Null /\ m[np].type # TYPE_BARRIER THEN <<np>> \o rest
             ELSE rest

getNeighbors(m, position) ==
    getNeighborsFrom(m, position, 1)

isInPath(path, position) ==
    \E j \in 1 .. Len(path) : path[j] = position

\* The tabu filter of _selectNext, with its deadlock escape.
TabuFilter(path, neighbors) ==
    SelectSeq(neighbors, LAMBDA c : ~isInPath(path, c))

\* A _selectNext without the tabu filter.
AllowedUnfiltered(path, neighbors) ==
    neighbors

Allowed(path, neighbors) ==
    IF Len(TabuFilter(path, neighbors)) = 0 THEN neighbors
    ELSE TabuFilter(path, neighbors)

\* Math.pow(eta, beta) for eta = 1 / sqrt(d2), or 100 when d2 = 0.  beta is
\* even, so that the power of the square root is rational.
EtaPow(d2) ==
    IF d2 > 0 THEN Pow(Rat(1, d2), beta \div 2) ELSE Pow(Int2Num(100), beta)

\* [tau]^alpha * [eta]^beta of one candidate.
Desirability(a, m, c) ==
    IF a.status = STATUS_FIND_FOOD
    THEN Mul(Pow(Add(getP(m[c], P_TYPE_FOOD), tau0), alpha), Pow(Int2Num(1), beta))
    ELSE LET dx == c[1] - a.homePosition[1]
             dy == c[2] - a.homePosition[2]
         IN  Mul(Pow(Add(getP(m[c], P_TYPE_HOME), tau0), alpha),
                 EtaPow(dx * dx + dy * dy))

\* The loop of _selectNext that pushes one value per candidate.
RECURSIVE ValuesFrom(_, _, _, _)
ValuesFrom(a, m, allowed, i) ==
    IF i > Len(allowed) THEN <<>>
    ELSE <<Desirability(a, m, allowed[i])>> \o ValuesFrom(a, m, allowed, i + 1)

Values(a, m, allowed) ==
    ValuesFrom(a, m, allowed, 1)

RECURSIVE SumFrom(_, _)
SumFrom(values, i) ==
    IF i = 0 THEN Zero ELSE Add(SumFrom(values, i - 1), values[i])

RECURSIVE DivideFrom(_, _, _)
DivideFrom(values, sum, i) ==
    IF i > Len(values) THEN <<>>
    ELSE <<Div(values[i], sum)>> \o DivideFrom(values, sum, i + 1)

RECURSIVE UniformFrom(_, _)
UniformFrom(n, i) ==
    IF i > n THEN <<>>
    ELSE <<Div(Int2Num(1), Int2Num(n))>> \o UniformFrom(n, i + 1)

\* The vector _selectNext hands to rouletteWheel.
Normalize(values) ==
    LET sum == SumFrom(values, Len(values))
    IN  IF Gt(sum, Zero) THEN DivideFrom(values, sum, 1)
        ELSE UniformFrom(Len(values), 1)

\* The values the variable cumulative of rouletteWheel takes, in order.
RECURSIVE CumulativeFrom(_, _, _)
CumulativeFrom(probs, i, cumulative) ==
    IF i > Len(probs) THEN <<>>
    ELSE <<Add(cumulative, probs[i])>>
            \o CumulativeFrom(probs, i + 1, Add(cumulative, probs[i]))

Cumulative(probs) ==
    CumulativeFrom(probs, 1, Zero)

\* A loop that returns at the first cumulative sum above r.
RECURSIVE rouletteFromAbove(_, _, _)
rouletteFromAbove(cum, r, i) ==
    IF i >= Len(cum) THEN Len(cum) - 1
    ELSE IF Lt(r, cum[i + 1]) THEN i
    ELSE rouletteFromAbove(cum, r, i + 1)

\* The loop of rouletteWheel over the cumulative sums: a 0-based index.
RECURSIVE rouletteFrom(_, _, _)
rouletteFrom(cum, r, i) ==
    IF i >= Len(cum) THEN Len(cum) - 1
    ELSE IF Le(r, cum[i + 1]) THEN i
    ELSE rouletteFrom(cum, r, i + 1)

\* Ant.rouletteWheel with the draw r = Math.random().
rouletteWheel(probs, r) ==
    rouletteFrom(Cumulative(probs), r, 0)

\* A value Math.random() can return: in [0, 1), and not in the range of the
\* quotients x / MAX_VALUE unless it is 0.
IsDraw(c) ==
    /\ c.k = "num"
    /\ IsZero(c) \/ c.lv = 0
    /\ ~Lt(c, Zero)
    /\ Lt(c, Int2Num(1))

RECURSIVE MaxOf(_)
MaxOf(S) ==
    LET x == CHOOSE y \in S : TRUE
    IN  IF S = {x} THEN x
        ELSE LET mx == MaxOf(S \ {x}) IN IF Lt(mx, x) THEN x ELSE mx

\* Draws of Math.random() that between them produce every outcome
\* rouletteWheel has on the cumulative sums cum: 0, every sum below 1, and a
\* point between the largest of these and 1.
Draws(cum) ==
    LET Below == {Zero} \cup {cum[j] : j \in {i \in 1 .. Len(cum) : IsDraw(cum[i])}}
    IN  Below \cup {Mul(Add(MaxOf(Below), Int2Num(1)), Rat(1, 2))}

\* _selectNext: the cells it can return (null when there is no neighbour), the
\* draw of rouletteWheel ranging over the values of Math.random().
selectNext(a, m, current) ==
    LET neighbors == getNeighbors(m, current)
        allowed   == Allowed(a.path, neighbors)
        cum       == Cumulative(Normalize(Values(a, m, allowed)))
    IN  IF Len(neighbors) = 0 THEN {Null}
        ELSE {allowed[rouletteFrom(cum, r, 0) + 1] : r \in Draws(cum)}

\* A _depositPheromone loop that does not register the cells.
RECURSIVE depositFromUnregistered(_, _, _, _, _, _)
depositFromUnregistered(path, m, cl, deltaTau, pType, i) ==
    IF i > Len(path) THEN [map |-> m, checkList |-> cl]
    ELSE depositFromUnregistered(path,
                     [m EXCEPT ![path[i]] = addPheromone(@, deltaTau, pType)],
                     cl, deltaTau, pType, i + 1)

\* The loop of _depositPheromone from index i on: the map and the check list.
RECURSIVE depositFrom(_, _, _, _, _, _)
depositFrom(path, m, cl, deltaTau, pType, i) ==
    IF i > Len(path) THEN [map |-> m, checkList |-> cl]
    ELSE depositFrom(path,
                     [m EXCEPT ![path[i]] = addPheromone(@, deltaTau, pType)],
                     addCheckList(cl, path[i]), deltaTau, pType, i + 1)

\* A _depositPheromone that divides Q by the number of moves of the path.
depositPheromonePerMove(path, m, cl, pType) ==
    IF Len(path) <= 1 THEN [map |-> m, checkList |-> cl]
    ELSE depositFrom(path, m, cl, Div(Int2Num(Q), Int2Num(Len(path) - 1)), pType, 1)

depositPheromone(path, m, cl, pType) ==
    IF Len(path) <= 1 THEN [map |-> m, checkList |-> cl]
    ELSE depositFrom(path, m, cl, Div(Int2Num(Q), Int2Num(Len(path))), pType, 1)

\* A move() whose path-length reset leaves the ant carrying.
PathLimitCarrying(a, maxPath) ==
    IF Len(a.path) > a.maxPath
    THEN [Ant_init(a.homePosition, maxPath) EXCEPT !.status = STATUS_CARRY_FOOD]
    ELSE a

\* The path-length limit at the end of move().
PathLimit(a, maxPath) ==
    IF Len(a.path) > a.maxPath THEN Ant_init(a.homePosition, maxPath) ELSE a

\* A move() that deposits on the cell it enters at every step.
Ant_moveOnline(a, m, cl, next, maxPath) ==
        IF next = Null
        THEN [ant |-> Ant_init(a.homePosition, maxPath), map |-> m, checkList |-> cl,
              next |-> Null, deposit |-> <<>>, pType |-> 0]
        ELSE IF m[next].type = TYPE_FOOD /\ a.status = STATUS_FIND_FOOD
        THEN LET dep == depositPheromone(Append(a.path, next), m, cl, P_TYPE_FOOD)
             IN  [ant |-> PathLimit([a EXCEPT !.status = STATUS_CARRY_FOOD,
                                              !.path = <<next>>], maxPath),
                  map |-> dep.map, checkList |-> dep.checkList,
                  next |-> next, deposit |-> Append(a.path, next),
                  pType |-> P_TYPE_FOOD]
        ELSE IF m[next].type = TYPE_HOME /\ a.status = STATUS_CARRY_FOOD
        THEN LET dep == depositPheromone(Append(a.path, next), m, cl, P_TYPE_HOME)
             IN  [ant |-> PathLimit(Ant_init(a.homePosition, maxPath), maxPath),
                  map |-> dep.map, checkList |-> dep.checkList,
                  next |-> next, deposit |-> Append(a.path, next),
                  pType |-> P_TYPE_HOME]
        ELSE [ant |-> PathLimit([a EXCEPT !.path = Append(a.path, next)], maxPath),
              map |-> [m EXCEPT ![next] = addPheromone(@, Int2Num(Q), P_TYPE_FOOD)],
              checkList |-> addCheckList(cl, next),
              next |-> next, deposit |-> <<>>, pType |-> 0]

\* Ant.prototype.move.  next is the cell _selectNext returned and maxPath the
\* value _init samples if this move resets the ant.  The result holds the ant,
\* the map and the check list after the move, and what the move did: the cell
\* selected, and the path and channel of the deposit (path <<>> for none).
Ant_move(a, m, cl, next, maxPath) ==
        IF next = Null
        THEN [ant |-> Ant_init(a.homePosition, maxPath), map |-> m, checkList |-> cl,
              next |-> Null, deposit |-> <<>>, pType |-> 0]
        ELSE IF m[next].type = TYPE_FOOD /\ a.status = STATUS_FIND_FOOD
        THEN LET dep == depositPheromone(Append(a.path, next), m, cl, P_TYPE_FOOD)
             IN  [ant |-> PathLimit([a EXCEPT !.status = STATUS_CARRY_FOOD,
                                              !.path = <<next>>], maxPath),
                  map |-> dep.map, checkList |-> dep.checkList,
                  next |-> next, deposit |-> Append(a.path, next),
                  pType |-> P_TYPE_FOOD]
        ELSE IF m[next].type = TYPE_HOME /\ a.status = STATUS_CARRY_FOOD
        THEN LET dep == depositPheromone(Append(a.path, next), m, cl, P_TYPE_HOME)
             IN  [ant |-> PathLimit(Ant_init(a.homePosition, maxPath), maxPath),
                  map |-> dep.map, checkList |-> dep.checkList,
                  next |-> next, deposit |-> Append(a.path, next),
                  pType |-> P_TYPE_HOME]
        ELSE [ant |-> PathLimit([a EXCEPT !.path = Append(a.path, next)], maxPath),
              map |-> m, checkList |-> addCheckList(cl, next),
              next |-> next, deposit |-> <<>>, pType |-> 0]

---------------------------------------------------------------------------
(* The driver: _run and the click handlers *)

VARIABLES
    world,                \* whether start()'s world has been created
    map,                  \* world.map: cell -> Position
    checkList,            \* world.checkList
    selectedPosition,     \* world.selectedPosition
    homePosition,         \* world.homePosition
    antList,
    isRun,
    isSimulationStarted,
    isSettingsApplied,
    welcomeShown,         \* #welcome is displayed
    settingsShown,        \* #settingsPanel is displayed
    pc,                   \* position in _run: "idle", "move", "evaporate"
    step,                 \* loop variables of _run
    antIdx,
    ticks,                \* number of ticks that ran the simulation
    moves,                \* number of move() calls
    changes,              \* number of changeType calls
    moved,                \* per ant, the move() calls of the current tick
    evaporated,           \* the evaporateAndRender calls of the current tick
    touched,              \* cells deposited on or traversed since the last pass
    everTouched,          \* cells deposited on or traversed since construction
    call,                 \* a call of one function on its own: the function,
                          \* its arguments and its result ("none" in the runs
                          \* of the driver)
    last                  \* what the latest move, pass or type change did:
                          \* for a move the ant, its path, status, _maxPath and
                          \* cell before the move, the cell selected, the path
                          \* and channel of the deposit and the check list
                          \* before the move; for a pass the check list and
                          \* the cells touched since the pass before; for a
                          \* type change the cell, the type and the cell's
                          \* Position before the change

driverVars ==
    <<width, height, paramAntNumber, ANT_NUMBER, moves, world, map, checkList,
      selectedPosition, homePosition, antList, isRun,
      isSimulationStarted, isSettingsApplied, welcomeShown, settingsShown, pc,
      step, antIdx, ticks, changes, moved, evaporated, touched, everTouched, last>>

vars ==
    <<driverVars, call>>

worldVars ==
    <<world, map, checkList, selectedPosition, homePosition>>

runVars ==
    <<isRun, pc, step, antIdx, ticks, moves, moved, evaporated>>

uiVars ==
    <<isSimulationStarted, isSettingsApplied, welcomeShown, settingsShown>>

inputVars ==
    <<width, height, paramAntNumber>>

NoOp(op) ==
    [op |-> op, ant |-> 0, path |-> <<>>, status |-> 0, maxPath |-> 0,
     next |-> Null, deposit |-> <<>>, pType |-> 0, cell |-> Null,
     checkList |-> <<>>, touched |-> {},
     pos |-> Position(Zero, Zero, TYPE_NORMAL)]

\* The state when start() has run, in a window of the given size and with the
\* given number in the input #paramAntNumber.
InitWindow(window, antNumber) ==
    /\ width = window[1]
    /\ height = window[2]
    /\ paramAntNumber = antNumber
    /\ ANT_NUMBER = 50
    /\ moves = 0
    /\ world = FALSE
    /\ map = <<>>
    /\ checkList = <<>>
    /\ selectedPosition = Null
    /\ homePosition = Null
    /\ antList = <<>>
    /\ isRun = FALSE
    /\ isSimulationStarted = FALSE
    /\ isSettingsApplied = FALSE
    /\ welcomeShown = TRUE
    /\ settingsShown = FALSE
    /\ pc = "idle"
    /\ step = 0
    /\ antIdx = 0
    /\ ticks = 0
    /\ changes = 0
    /\ moved = <<>>
    /\ evaporated = 0
    /\ touched = {}
    /\ everTouched = {}
    /\ last = NoOp("none")

NoCall ==
    [fn |-> "none"]

Init ==
    InitWindow(SmallWindow, 1) /\ call = NoCall

InitScenario ==
    InitWindow(ScenarioWindow, 1) /\ call = NoCall

InitColony ==
    InitWindow(SmallWindow, 2) /\ call = NoCall

\* $("#enter").click
EnterClick ==
    /\ pc = "idle"
    /\ welcomeShown
    /\ welcomeShown' = FALSE
    /\ settingsShown' = TRUE
    /\ UNCHANGED <<inputVars, call, ANT_NUMBER, worldVars, runVars, antList,
                   isSimulationStarted, isSettingsApplied, changes, touched,
                   everTouched, last>>

\* $("#setBtn").click: world = new World(...)
SetBtnClick ==
    /\ pc = "idle"
    /\ settingsShown
    /\ world' = TRUE
    /\ map' = World_init
    /\ checkList' = <<>>
    /\ selectedPosition' = Null
    /\ homePosition' = homeCell
    /\ settingsShown' = FALSE
    /\ isSettingsApplied' = TRUE
    /\ ANT_NUMBER' = (IF paramAntNumber # 0 THEN paramAntNumber ELSE 50)
    /\ UNCHANGED <<inputVars, call, runVars, antList, isSimulationStarted,
                   welcomeShown, changes, touched, everTouched, last>>

\* A #startBtn handler without the test of isSettingsApplied.
StartBtnClickUnguarded ==
    /\ pc = "idle"
    /\ isSimulationStarted' = TRUE
    /\ UNCHANGED <<inputVars, call, ANT_NUMBER, worldVars, runVars, antList,
                   isSettingsApplied, welcomeShown, settingsShown, changes,
                   touched, everTouched, last>>

\* $("#startBtn").click
StartBtnClick ==
    /\ pc = "idle"
    /\ isSimulationStarted' = (IF ~isSettingsApplied THEN isSimulationStarted ELSE TRUE)
    /\ UNCHANGED <<inputVars, call, ANT_NUMBER, worldVars, runVars, antList,
                   isSettingsApplied, welcomeShown, settingsShown, changes,
                   touched, everTouched, last>>

\* The click handler of a cell: world.clickPosition(that)
PositionClick(c) ==
    /\ pc = "idle"
    /\ world
    /\ changes < MaxChanges
    /\ selectedPosition' = c
    /\ UNCHANGED <<inputVars, call, ANT_NUMBER, world, map, checkList, homePosition,
                   runVars, uiVars, antList, changes, touched, everTouched,
                   last>>

\* $("#innerSelectPlane .food").click and $("#innerSelectPlane .barrier").click
TypeClick(type) ==
    /\ pc = "idle"
    /\ world
    /\ changes < MaxChanges
    /\ selectedPosition # Null
    /\ map' = [map EXCEPT ![selectedPosition] = changeType(@, type)]
    /\ changes' = changes + 1
    /\ last' = [NoOp("changeType") EXCEPT !.cell = selectedPosition, !.pType = type,
                                           !.pos = map[selectedPosition]]
    /\ UNCHANGED <<inputVars, call, ANT_NUMBER, world, checkList, selectedPosition,
                   homePosition, runVars, uiVars, antList, touched, everTouched>>

FoodClick ==
    TypeClick(TYPE_FOOD)

BarrierClick ==
    TypeClick(TYPE_BARRIER)

\* A _run that pushes at most one ant in a tick.
SpawnedOne(n) ==
    [1 .. (IF n > 0 THEN 1 ELSE 0) ->
        {Ant_init(homePosition, mp) : mp \in MaxPathSamples}]

\* The ants _run pushes until antList holds ANT_NUMBER of them.
Spawned(n) ==
    [1 .. n -> {Ant_init(homePosition, mp) : mp \in MaxPathSamples}]

\* _run when the simulation is not running: nothing but the isRun latch.
RunSkip ==
    /\ pc = "idle"
    /\ ~isRun
    /\ ~(world /\ isSettingsApplied /\ isSimulationStarted)
    /\ UNCHANGED vars

\* _run, up to the first move(): the population is topped up.
RunBegin ==
    /\ pc = "idle"
    /\ ~isRun
    /\ world /\ isSettingsApplied /\ isSimulationStarted
    /\ moves + ANT_NUMBER * stepsPerTick <= MaxMoves
    /\ \E new \in Spawned(IF Len(antList) < ANT_NUMBER
                          THEN ANT_NUMBER - Len(antList) ELSE 0) :
          antList' = antList \o new
    /\ isRun' = TRUE
    /\ pc' = IF stepsPerTick > 0 /\ Len(antList') > 0 THEN "move" ELSE "evaporate"
    /\ step' = 0
    /\ antIdx' = 0
    /\ ticks' = ticks + 1
    /\ moved' = [j \in 1 .. Len(antList') |-> 0]
    /\ evaporated' = 0
    /\ UNCHANGED <<inputVars, call, ANT_NUMBER, worldVars, uiVars, moves, changes,
                   touched, everTouched, last>>

\* A _run whose outer loop runs the pass after the first sub-step.
LoopNextOneSubStep(st, idx, n) ==
    IF idx + 1 < n THEN [pc |-> "move", step |-> st, antIdx |-> idx + 1]
    ELSE [pc |-> "evaporate", step |-> st + 1, antIdx |-> idx + 1]

\* The position in _run's two loops after antList[idx].move() of sub-step st.
LoopNext(st, idx, n) ==
    IF idx + 1 < n THEN [pc |-> "move", step |-> st, antIdx |-> idx + 1]
    ELSE IF st + 1 < stepsPerTick THEN [pc |-> "move", step |-> st + 1, antIdx |-> 0]
    ELSE [pc |-> "evaporate", step |-> st + 1, antIdx |-> idx + 1]

\* One antList[i].move() of _run's inner loop.
AntMove ==
    /\ pc = "move"
    /\ \E next \in selectNext(antList[antIdx + 1], map,
                              antList[antIdx + 1].path[Len(antList[antIdx + 1].path)]),
          mp \in MaxPathSamples :
          LET a   == antList[antIdx + 1]
              res == Ant_move(a, map, checkList, next, mp)
              pos == LoopNext(step, antIdx, Len(antList))
              tch == {res.deposit[j] : j \in 1 .. Len(res.deposit)}
                       \cup (IF res.next # Null /\ res.deposit = <<>>
                             THEN {res.next} ELSE {})
          IN  /\ antList' = [antList EXCEPT ![antIdx + 1] = res.ant]
              /\ map' = res.map
              /\ checkList' = res.checkList
              /\ pc' = pos.pc
              /\ step' = pos.step
              /\ antIdx' = pos.antIdx
              /\ moved' = [moved EXCEPT ![antIdx + 1] = @ + 1]
              /\ moves' = moves + 1
              /\ touched' = touched \cup tch
              /\ everTouched' = everTouched \cup tch
              /\ last' = [op |-> "move", ant |-> antIdx + 1, path |-> a.path,
                          status |-> a.status, maxPath |-> a.maxPath,
                          next |-> res.next, deposit |-> res.deposit,
                          pType |-> res.pType, cell |-> a.path[Len(a.path)],
                          checkList |-> checkList, touched |-> {},
                          pos |-> map[a.path[Len(a.path)]]]
    /\ UNCHANGED <<inputVars, call, ANT_NUMBER, world, selectedPosition, homePosition,
                   uiVars, isRun, ticks, changes, evaporated>>

\* world.evaporateAndRender() and the end of _run.
Evaporate ==
    /\ pc = "evaporate"
    /\ map' = evaporateAndRender(map, checkList)
    /\ evaporated' = evaporated + 1
    /\ isRun' = FALSE
    /\ pc' = "idle"
    /\ touched' = {}
    /\ last' = [NoOp("evaporate") EXCEPT !.checkList = checkList,
                                         !.touched = touched]
    /\ UNCHANGED <<inputVars, call, ANT_NUMBER, world, checkList, selectedPosition,
                   homePosition, uiVars, antList, step, antIdx, ticks, moves,
                   changes, moved, everTouched>>

Next ==
    \/ EnterClick
    \/ SetBtnClick
    \/ StartBtnClick
    \/ \E c \in ClickCells : PositionClick(c)
    \/ FoodClick
    \/ BarrierClick
    \/ RunSkip
    \/ RunBegin
    \/ AntMove
    \/ Evaporate

Spec ==
    Init /\ [][Next]_vars

\* The runs of the scenario: a grid of 5 x 5 cells with the home cell at (2, 2).
SpecScenario ==
    InitScenario /\ [][Next]_vars

\* The runs with two ants.
SpecColony ==
    InitColony /\ [][Next]_vars

---------------------------------------------------------------------------
(* Calls of one function on its own *)

\* Bound of the number of passes over one cell.
MaxPasses ==
    14

\* Levels of a channel of a Normal cell: none, and sums of deposits Q / L.
Levels ==
    {Zero, Rat(Q, 3), Rat(Q, 4), Rat(2 * Q, 3)}

\* Values of World.rho inside (0, 1) that the settings form accepts: 0.9, 0.99
\* and 1 / Number.MAX_VALUE.
Rates ==
    {Rat(9, 10), Rat(99, 100), Div(Int2Num(1), MAX_VALUE)}

\* A Normal cell with some pheromone, about to be evaporated at some rate.
InitEvaporate ==
    /\ InitWindow(SmallWindow, 1)
    /\ \E fp \in Levels, hp \in Levels, r \in Rates :
          call = [fn |-> "evaporatePheromone",
                  from |-> Position(fp, hp, TYPE_NORMAL),
                  pos |-> Position(fp, hp, TYPE_NORMAL), rho |-> r, passes |-> 0]

\* position.evaporatePheromone(World.rho), as each evaporateAndRender calls it.
EvaporateCall ==
    /\ call.fn = "evaporatePheromone"
    /\ call.passes < MaxPasses
    /\ call' = [call EXCEPT !.pos = evaporatePheromone(@, call.rho),
                            !.passes = @ + 1]
    /\ UNCHANGED driverVars

\* Passes over one cell with no deposit in between.
SpecEvaporate ==
    InitEvaporate /\ [][EvaporateCall]_vars

\* parseFloat(text) || fallback: the fallback replaces NaN (a text that is not
\* a number) and 0.
OrDefault(v, fallback) ==
    IF v.k = "nan" \/ IsZero(v) THEN fallback ELSE v

\* What parseFloat makes of the texts of #paramAlpha, #paramBeta, #paramRho
\* and #paramQ.
FormAlpha ==
    {NaN, Int2Num(-1), Zero, Int2Num(1)}

FormBeta ==
    {Int2Num(-2), Zero, Int2Num(2)}

FormRho ==
    {NaN, Rat(-1, 2), Zero, Rat(1, 2), Int2Num(1), Int2Num(2)}

FormQ ==
    {Int2Num(-100), Zero, Int2Num(100)}

\* The static parameters of World before #setBtn is clicked.
WorldDefaults ==
    [alpha |-> Int2Num(1), beta |-> Int2Num(2), rho |-> Rat(1, 50),
     Q |-> Int2Num(100)]

\* The settings form filled in, #setBtn not yet clicked.
InitSettings ==
    /\ InitWindow(SmallWindow, 1)
    /\ \E a \in FormAlpha, b \in FormBeta, r \in FormRho, q \in FormQ :
          call = [fn |-> "setBtn",
                  form |-> [alpha |-> a, beta |-> b, rho |-> r, Q |-> q],
                  World |-> WorldDefaults, isSettingsApplied |-> FALSE,
                  pos |-> Position(Rat(100, 3), Zero, TYPE_NORMAL), ticks |-> 0]

\* $("#setBtn").click: the parameters are read and the World is constructed.
SetBtnCall ==
    /\ call.fn = "setBtn"
    /\ ~call.isSettingsApplied
    /\ call' = [call EXCEPT
                  !.World = [alpha |-> OrDefault(call.form.alpha, Int2Num(1)),
                             beta  |-> OrDefault(call.form.beta, Int2Num(2)),
                             rho   |-> OrDefault(call.form.rho, Rat(1, 50)),
                             Q     |-> OrDefault(call.form.Q, Int2Num(100))],
                  !.isSettingsApplied = TRUE]
    /\ UNCHANGED driverVars

\* A tick of _run once the settings are applied: its pass over a cell that
\* holds pheromone.
TickCall ==
    /\ call.fn = "setBtn"
    /\ call.isSettingsApplied
    /\ call.ticks < 1
    /\ call' = [call EXCEPT !.pos = evaporatePheromone(@, call.World.rho),
                            !.ticks = @ + 1]
    /\ UNCHANGED driverVars

NextSettings ==
    \/ SetBtnCall
    \/ TickCall

SpecSettings ==
    InitSettings /\ [][NextSettings]_vars

\* Entries of the vectors handed to rouletteWheel, and the vectors of up to
\* three of them.
Entries ==
    {Zero, Rat(1, 4), Rat(1, 3), Rat(1, 2), Int2Num(1), NaN}

Vectors ==
    UNION {[1 .. n -> Entries] : n \in 1 .. 3}

\* Values of Math.random().
RandomDraws ==
    {Zero, Rat(1, 4), Rat(1, 3), Rat(1, 2), Rat(2, 3), Rat(3, 4), Rat(9999, 10000)}

InitRoulette ==
    /\ InitWindow(SmallWindow, 1)
    /\ \E probs \in Vectors, r \in RandomDraws :
          call = [fn |-> "rouletteWheel", probs |-> probs, r |-> r,
                  returned |-> FALSE, result |-> 0]

\* Ant.rouletteWheel(probs) with Math.random() = r.
RouletteCall ==
    /\ call.fn = "rouletteWheel"
    /\ ~call.returned
    /\ call' = [call EXCEPT !.returned = TRUE,
                            !.result = rouletteWheel(call.probs, call.r)]
    /\ UNCHANGED driverVars

SpecRoulette ==
    InitRoulette /\ [][RouletteCall]_vars

---------------------------------------------------------------------------
(* Properties *)

\* d is the cell at one of the offsets of Direction.M from c.
Adjacent(c, d) ==
    \E i \in 1 .. Len(DirectionM) :
        d = <<c[1] + DirectionM[i][1], c[2] + DirectionM[i][2]>>

\* The cells of the grid at these offsets from c that are not barriers.
LegalNeighbours(c) ==
    {d \in Cells : Adjacent(c, d) /\ map[d].type # TYPE_BARRIER}

\* The cells of a list.
CellsOf(seq) ==
    {seq[j] : j \in 1 .. Len(seq)}

AllMoved ==
    \A j \in 1 .. Len(antList) : moved[j] = stepsPerTick

\* C1: in a tick that runs the simulation, evaporateAndRender is called once,
\* after every ant has made stepsPerTick calls of move(): no pass has run
\* while an ant is still to move, the pass starts only when every ant has moved
\* stepsPerTick times, and when the tick is over one pass has run.
C1_EvaporateOncePerTick ==
    /\ pc = "move" => evaporated = 0
    /\ pc = "evaporate" => evaporated = 0 /\ AllMoved
    /\ (pc = "idle" /\ ticks > 0) => evaporated = 1 /\ AllMoved

\* A tick of two ants is over, with its pass.
C1_TickOfTwoAntsDone ==
    pc = "idle" /\ ticks >= 1 /\ evaporated = 1 /\ AllMoved /\ Len(antList) = 2

\* C2: the cell a move() selects is not in the ant's path, unless every
\* non-barrier neighbour of the ant's cell is in the path, and then the cell
\* is one of these neighbours.
C2_Tabu ==
    (last.op = "move" /\ last.next # Null) =>
        \/ ~isInPath(last.path, last.next)
        \/ /\ \A d \in LegalNeighbours(last.cell) : isInPath(last.path, d)
           /\ last.next \in LegalNeighbours(last.cell)

\* A move() out of a dead end: the selected cell is in the path.
C2_DeadEndEscape ==
    /\ last.op = "move"
    /\ last.next # Null
    /\ isInPath(last.path, last.next)
    /\ LegalNeighbours(last.cell) # {}

\* C3: the status of an ant is STATUS_FIND_FOOD or STATUS_CARRY_FOOD, and it
\* changes only in a move() of that ant: from seeking to carrying when the
\* selected cell is a food cell, from carrying to seeking when the selected
\* cell is the home cell, when there is no neighbour, or when the path
\* becomes longer than the ant's maximum.
C3_StatusTransitions ==
    /\ [](\A j \in 1 .. Len(antList) :
            antList[j].status \in {STATUS_FIND_FOOD, STATUS_CARRY_FOOD})
    /\ [][\A j \in 1 .. Len(antList) :
            antList'[j].status # antList[j].status =>
                /\ pc = "move" /\ antIdx + 1 = j
                /\ last'.op = "move" /\ last'.ant = j
                /\ antList[j].status = STATUS_FIND_FOOD =>
                      /\ last'.next # Null
                      /\ map[last'.next].type = TYPE_FOOD
                /\ antList[j].status = STATUS_CARRY_FOOD =>
                      \/ last'.next = Null
                      \/ map[last'.next].type = TYPE_HOME
                      \/ Len(antList[j].path) + 1 > antList[j].maxPath]_vars

\* An ant that carried food has selected the home cell and seeks again.
C3_CameHome ==
    /\ last.op = "move"
    /\ last.status = STATUS_CARRY_FOOD
    /\ last.next # Null
    /\ map[last.next].type = TYPE_HOME
    /\ antList[last.ant].status = STATUS_FIND_FOOD

\* The number of entries of a path that are the cell c.
Occurrences(path, c) ==
    Cardinality({i \in 1 .. Len(path) : path[i] = c})

RECURSIVE AddTimes(_, _, _)
AddTimes(v, amount, k) ==
    IF k = 0 THEN v ELSE AddTimes(Add(v, amount), amount, k - 1)

\* Q / L for a path of L cells.
DeltaTau(path) ==
    Div(Int2Num(Q), Int2Num(Len(path)))

OtherChannel(pType) ==
    IF pType = P_TYPE_FOOD THEN P_TYPE_HOME ELSE P_TYPE_FOOD

\* The step is a move() that deposits.
DepositStep ==
    pc = "move" /\ last'.op = "move" /\ last'.deposit # <<>>

\* C4: a deposit on a path of L > 1 cells adds Q / L to the given channel of a
\* Normal cell once for every entry of the path that is this cell (a cell the
\* ant has entered twice receives 2 * Q / L), leaves the other channel of the
\* cell unchanged, and leaves both channels of every Home, Food and Barrier
\* cell, and of every cell that is not in the path, unchanged.
C4_DepositPerEntry ==
    [][DepositStep =>
        LET path  == last'.deposit
            pType == last'.pType
        IN  /\ Len(path) > 1
            /\ \A c \in Cells :
                 /\ map'[c].type = map[c].type
                 /\ getP(map'[c], OtherChannel(pType)) = getP(map[c], OtherChannel(pType))
                 /\ getP(map'[c], pType) =
                       IF map[c].type = TYPE_NORMAL
                       THEN AddTimes(getP(map[c], pType), DeltaTau(path),
                                     Occurrences(path, c))
                       ELSE getP(map[c], pType)]_vars

\* C4 as stated: the deposit adds exactly Q / L to the given channel of every
\* Normal cell in the path.
C4_DepositOncePerCell ==
    [][DepositStep =>
        LET path  == last'.deposit
            pType == last'.pType
        IN  \A c \in CellsOf(path) :
                 /\ getP(map'[c], OtherChannel(pType)) = getP(map[c], OtherChannel(pType))
                 /\ getP(map'[c], pType) =
                       IF map[c].type = TYPE_NORMAL
                       THEN Add(getP(map[c], pType), DeltaTau(path))
                       ELSE getP(map[c], pType)]_vars

\* A deposit on a path that holds a Normal cell twice has given it 2 * Q / L.
C4_RevisitedCellDeposit ==
    /\ last.op = "move"
    /\ last.deposit # <<>>
    /\ \E c \in Cells :
          /\ map[c].type = TYPE_NORMAL
          /\ Occurrences(last.deposit, c) = 2
          /\ getP(map[c], last.pType) = AddTimes(Zero, DeltaTau(last.deposit), 2)

\* The least number of moves between two cells.
Moves(c, d) ==
    IF Abs(c[1] - d[1]) > Abs(c[2] - d[2]) THEN Abs(c[1] - d[1])
    ELSE Abs(c[2] - d[2])

\* The step is a deposit of the scenario on a shortest leg between the home
\* cell (2, 2) and the food cell (2, 0).
ShortestLegStep ==
    /\ DepositStep
    /\ homeCell = <<2, 2>>
    /\ map[<<2, 0>>].type = TYPE_FOOD
    /\ {last'.deposit[1], last'.deposit[Len(last'.deposit)]} = {<<2, 2>>, <<2, 0>>}
    /\ Len(last'.deposit) - 1 = Moves(<<2, 2>>, <<2, 0>>)

\* C5: in the scenario, the path of a shortest leg between the home cell and
\* the food cell holds three cells, the two ends and a Normal cell between
\* them; the deposit has L = 3 and adds Q / 3 to the channel of the cell in the
\* middle, and changes no other pheromone value.
C5_ScenarioDeposit ==
    [][ShortestLegStep =>
        LET path  == last'.deposit
            pType == last'.pType
        IN  /\ Len(path) = 3
            /\ map[path[2]].type = TYPE_NORMAL
            /\ getP(map'[path[2]], pType) =
                  Add(getP(map[path[2]], pType), Div(Int2Num(Q), Int2Num(3)))
            /\ getP(map'[path[2]], OtherChannel(pType)) =
                  getP(map[path[2]], OtherChannel(pType))
            /\ \A c \in Cells \ {path[2]} : map'[c].pheromone = map[c].pheromone]_vars

\* C5 as stated: the deposit of a shortest leg has L = 2 and adds 50 to the
\* channel of each of the two cells of the path.
C5_TwoCellDeposit ==
    [][ShortestLegStep =>
        LET path  == last'.deposit
            pType == last'.pType
        IN  /\ Len(path) = 2
            /\ \A c \in CellsOf(path) :
                  getP(map'[c], pType) = Add(getP(map[c], pType), Int2Num(50))]_vars

\* The ant has gone from the home cell over (2, 1) to the food cell.
C5_StraightLeg ==
    /\ last.op = "move"
    /\ last.pType = P_TYPE_FOOD
    /\ last.deposit = << <<2, 2>>, <<2, 1>>, <<2, 0>> >>
    /\ map[<<2, 0>>].type = TYPE_FOOD
    /\ getP(map[<<2, 1>>], P_TYPE_FOOD) = Div(Int2Num(Q), Int2Num(3))

\* C6: a Food cell has the food pheromone MAX_VALUE and the home pheromone 0, a
\* Home cell has the home pheromone MAX_VALUE and the food pheromone 0, and a
\* Barrier cell has both pheromones 0.
C6_TypePheromone ==
    world =>
        \A c \in Cells :
            /\ map[c].type = TYPE_FOOD =>
                  /\ getP(map[c], P_TYPE_FOOD) = MAX_VALUE
                  /\ getP(map[c], P_TYPE_HOME) = Zero
            /\ map[c].type = TYPE_HOME =>
                  /\ getP(map[c], P_TYPE_HOME) = MAX_VALUE
                  /\ getP(map[c], P_TYPE_FOOD) = Zero
            /\ map[c].type = TYPE_BARRIER =>
                  /\ getP(map[c], P_TYPE_FOOD) = Zero
                  /\ getP(map[c], P_TYPE_HOME) = Zero

\* A Normal cell with food pheromone has been made a barrier.
C6_TrailCellChanged ==
    /\ last.op = "changeType"
    /\ last.pos.type = TYPE_NORMAL
    /\ Gt(getP(last.pos, P_TYPE_FOOD), Zero)
    /\ map[last.cell].type = TYPE_BARRIER

\* C7: the grid holds exactly one Home cell, the cell at
\* (floor(xl / 2), floor(yl / 2)), and homePosition refers to it.
C7_OneHomeCell ==
    world =>
        /\ {c \in Cells : map[c].type = TYPE_HOME} = {homeCell}
        /\ homePosition = homeCell

\* C8: the cell a move() selects is a cell of the grid and is not a barrier.
C8_NeverBarrier ==
    (last.op = "move" /\ last.next # Null) =>
        /\ last.next \in Cells
        /\ map[last.next].type # TYPE_BARRIER

\* A move() out of a dead end in a corner of the grid, next to a barrier.
C8_EscapeNextToBarrier ==
    /\ last.op = "move"
    /\ last.next # Null
    /\ isInPath(last.path, last.next)
    /\ last.cell[1] \in {0, xl - 1} /\ last.cell[2] \in {0, yl - 1}
    /\ \E d \in Cells : Adjacent(last.cell, d) /\ map[d].type = TYPE_BARRIER

NoDuplicates(cl) ==
    \A i, j \in 1 .. Len(cl) : i # j => cl[i] # cl[j]

\* The list without the cell c, the other cells in their order.
Without(cl, c) ==
    SelectSeq(cl, LAMBDA d : d # c)

\* C9: checkList holds no cell twice; addCheckList of a cell of the list gives
\* a list of the same length that ends with the cell and holds the other cells
\* in their order, addCheckList of another cell appends it; and a move() to a
\* cell has changed the list in this way.
C9_CheckList ==
    /\ NoDuplicates(checkList)
    /\ \A c \in Cells :
          LET r == addCheckList(checkList, c)
          IN  IF c \in CellsOf(checkList)
              THEN /\ Len(r) = Len(checkList)
                   /\ r[Len(r)] = c
                   /\ SubSeq(r, 1, Len(r) - 1) = Without(checkList, c)
              ELSE /\ Len(r) = Len(checkList) + 1
                   /\ r = Append(checkList, c)
    /\ (last.op = "move" /\ last.next # Null /\ last.deposit = <<>>) =>
          checkList = Append(Without(last.checkList, last.next), last.next)

\* A move() to a cell that was in the list, and not at its end.
C9_ReRegistered ==
    /\ last.op = "move"
    /\ last.next # Null
    /\ last.deposit = <<>>
    /\ last.next \in CellsOf(last.checkList)
    /\ last.checkList[Len(last.checkList)] # last.next
    /\ Len(checkList) = Len(last.checkList)
    /\ checkList[Len(checkList)] = last.next

\* C10: checkList holds exactly the cells that a deposit or a move() has
\* registered since the world was constructed, at the start of a pass as in
\* every other state: evaporateAndRender removes no cell from the list.
C10_TouchedSinceConstruction ==
    CellsOf(checkList) = everTouched

\* C10 as stated: at the start of a pass checkList holds exactly the cells
\* touched since the previous pass.
C10_TouchedSincePass ==
    pc = "evaporate" => CellsOf(checkList) = touched

\* The second pass starts with a cell in the list that was touched before the
\* first pass only.
C10_StaleCellAtPass ==
    /\ pc = "evaporate"
    /\ ticks >= 2
    /\ \E c \in CellsOf(checkList) : c \notin touched

\* The Normal cells of the check list.
ActiveNormal ==
    {c \in CellsOf(checkList) : map[c].type = TYPE_NORMAL}

\* The largest level of the displayed channel over these cells, 0 for none.
MaxLevel ==
    MaxOf({Zero} \cup {getP(map[c], showPheromoneType) : c \in ActiveNormal})

ClampUnit(v) ==
    IF Gt(v, Int2Num(1)) THEN Int2Num(1) ELSE IF Lt(v, Zero) THEN Zero ELSE v

\* C11: after evaporateAndRender the opacity of every Normal cell of the check
\* list is clamp(value / m, 0, 1), where value is the evaporated level of the
\* displayed channel and m is maxP when maxP > 0 and 1 when maxP = 0: for
\* 0 < maxP < 1 the divisor is maxP, not 1.
C11_RenderIntensity ==
    last.op = "evaporate" =>
        \A c \in ActiveNormal :
            map[c].opacity =
                ClampUnit(Div(getP(map[c], showPheromoneType),
                              IF Gt(MaxLevel, Zero) THEN MaxLevel ELSE Int2Num(1)))

\* C11 as stated: the divisor is max(maxP, 1).
C11_RenderFloorOne ==
    last.op = "evaporate" =>
        \A c \in ActiveNormal :
            map[c].opacity =
                ClampUnit(Div(getP(map[c], showPheromoneType),
                              IF Gt(MaxLevel, Int2Num(1)) THEN MaxLevel
                              ELSE Int2Num(1)))

\* A pass with 0 < maxP < 1 has given the cell of the largest level opacity 1.
C11_FaintTrailRendered ==
    /\ last.op = "evaporate"
    /\ Gt(MaxLevel, Zero)
    /\ Lt(MaxLevel, Int2Num(1))
    /\ \E c \in ActiveNormal :
          /\ getP(map[c], showPheromoneType) = MaxLevel
          /\ map[c].opacity = Int2Num(1)

\* The factor 1 - rho as evaporatePheromone computes it.
Factor ==
    Sub(Int2Num(1), call.rho)

\* What a pass makes of the level v of a channel.
Evaporated(v) ==
    LET product == Mul(v, Factor)
    IN  IF Lt(product, Epsilon) THEN Zero ELSE product

\* A pass over the cell of the call.
PassStep ==
    call.fn = "evaporatePheromone" /\ call'.passes = call.passes + 1

\* Both channels are exactly 0.
NoPheromone ==
    \A pType \in {P_TYPE_FOOD, P_TYPE_HOME} : getP(call.pos, pType) = Zero

AllPassesDone ==
    call.fn = "evaporatePheromone" /\ call.passes = MaxPasses

ChannelsEvaporate ==
    \A pType \in {P_TYPE_FOOD, P_TYPE_HOME} :
        LET v == getP(call.pos, pType)
            w == getP(call'.pos, pType)
        IN  /\ w = Evaporated(v)
            /\ Gt(v, Zero) => Lt(w, v)
            /\ v = Zero => w = Zero

\* C12: for a Normal cell and every rho in (0, 1), a pass replaces each channel
\* by (1 - rho) times its value, or by exactly 0 when that product is below
\* 1e-10; every positive channel gets strictly smaller, a channel at 0 stays
\* at 0, and passes without deposits bring both channels to exactly 0 (here
\* within MaxPasses passes).
C12_EvaporationDecreases ==
    /\ [][PassStep => ChannelsEvaporate]_vars
    /\ [](AllPassesDone => NoPheromone)

\* The ant whose move() is next, and the vector its _selectNext hands to
\* rouletteWheel.
MovingAnt ==
    antList[antIdx + 1]

Candidates ==
    Allowed(MovingAnt.path,
            getNeighbors(map, MovingAnt.path[Len(MovingAnt.path)]))

Probabilities ==
    Normalize(Values(MovingAnt, map, Candidates))

IsProbabilityVector(probs) ==
    /\ \A j \in 1 .. Len(probs) :
          /\ IsNum(probs[j])
          /\ Le(Zero, probs[j])
          /\ Le(probs[j], Int2Num(1))
    /\ SumFrom(probs, Len(probs)) = Int2Num(1)

\* C13: whenever an ant is about to move and its candidate set is not empty,
\* in either status and whatever the types of the candidates, the vector
\* handed to rouletteWheel has every entry in [0, 1] and its entries sum to 1.
C13_ProbabilityVector ==
    (pc = "move" /\ Len(Candidates) > 0) => IsProbabilityVector(Probabilities)

\* The latest move() pushed a cell that made the path longer than _maxPath.
PathBeyondCap ==
    last.op = "move" /\ last.next # Null /\ Len(last.path) + 1 > last.maxPath

\* C14: a move() that makes the path longer than the ant's _maxPath resets the
\* ant (path = [home], SeekingFood) and deposits nothing; every deposit is
\* made with a path length L that does not exceed the ant's _maxPath.
C14_NoDepositBeyondCap ==
    /\ PathBeyondCap =>
          /\ last.deposit = <<>>
          /\ antList[last.ant].path = <<homePosition>>
          /\ antList[last.ant].status = STATUS_FIND_FOOD
    /\ (last.op = "move" /\ last.deposit # <<>>) =>
          Len(last.deposit) <= last.maxPath

\* C15: in a tick that runs the simulation the population holds ANT_NUMBER
\* ants before the first move(), each sub-step calls move() once on each of
\* them (in sub-step `step` the ants up to antIdx have moved step + 1 times
\* and the others step times), and no step of the program shortens antList.
C15_PopulationTopUp ==
    /\ [](pc \in {"move", "evaporate"} =>
            /\ Len(antList) = ANT_NUMBER
            /\ Len(moved) = ANT_NUMBER
            /\ \A j \in 1 .. ANT_NUMBER :
                  moved[j] = (IF j <= antIdx /\ pc = "move" THEN step + 1 ELSE step))
    /\ [][Len(antList') >= Len(antList)]_vars

\* In a tick of two ants, an ant that came home with food has been reset and
\* is still in the population.
C15_ResetInPlace ==
    /\ pc = "evaporate"
    /\ ANT_NUMBER = 2
    /\ Len(antList) = 2
    /\ \E j \in 1 .. 2 :
          antList[j].path = <<homePosition>> /\ moved[j] = stepsPerTick

\* C16: no tick runs with a negative alpha, beta or Q (the construction with
\* such a value is refused), and the rho of every pass is strictly between 0
\* and 1.
C16_ValidatedConfiguration ==
    (call.fn = "setBtn" /\ call.ticks > 0) =>
        /\ Le(Zero, call.World.alpha)
        /\ Le(Zero, call.World.beta)
        /\ Le(Zero, call.World.Q)
        /\ Lt(Zero, call.World.rho)
        /\ Lt(call.World.rho, Int2Num(1))

\* probs[0] + ... + probs[i - 1], summed from the left.
RECURSIVE PrefixSum(_, _)
PrefixSum(probs, i) ==
    IF i = 0 THEN Zero ELSE Add(PrefixSum(probs, i - 1), probs[i])

\* The 0-based indices whose cumulative sum is >= the draw of the call.
Reaching ==
    {i \in 0 .. Len(call.probs) - 1 : Le(call.r, PrefixSum(call.probs, i + 1))}

\* C17: rouletteWheel returns the smallest index whose cumulative sum is >= r,
\* and the last index N - 1 when no cumulative sum reaches r; the result is
\* an index in 0 .. N - 1.
C17_RouletteWheel ==
    (call.fn = "rouletteWheel" /\ call.returned) =>
        /\ call.result \in 0 .. Len(call.probs) - 1
        /\ Reaching # {} =>
              call.result \in Reaching /\ \A i \in Reaching : call.result <= i
        /\ Reaching = {} => call.result = Len(call.probs) - 1

\* A vector of three positive entries whose sum stays below the draw: the last
\* index has been returned.
C17_LastIndexFallback ==
    /\ call.fn = "rouletteWheel"
    /\ call.returned
    /\ Len(call.probs) = 3
    /\ \A j \in 1 .. 3 : Gt(call.probs[j], Zero)
    /\ Reaching = {}
    /\ call.result = 2

\* The draw equals a cumulative sum that is not the first: its index has
\* been returned.
C17_DrawOnBoundary ==
    /\ call.fn = "rouletteWheel"
    /\ call.returned
    /\ call.result > 0
    /\ PrefixSum(call.probs, call.result + 1) = call.r

Last(seq) ==
    seq[Len(seq)]

\* The step is a move() of the ant antList[antIdx + 1].
MoveStep ==
    pc = "move" /\ moves' = moves + 1

\* That move() completes a leg: the cell selected is Food and the ant is
\* SeekingFood, or it is Home and the ant is CarryingFood.
Arrival ==
    /\ last'.next # Null
    /\ \/ map[last'.next].type = TYPE_FOOD /\ MovingAnt.status = STATUS_FIND_FOOD
       \/ map[last'.next].type = TYPE_HOME /\ MovingAnt.status = STATUS_CARRY_FOOD

\* C18: a move() that does not complete a leg (normal movement, reset for
\* want of a legal move, reset at the path cap) leaves both channels of every
\* cell as they were; in a step of _run a channel of a cell increases only if
\* the step is a move() that completes a leg.
C18_DepositOnlyOnArrival ==
    [][/\ (MoveStep /\ ~Arrival) =>
             \A c \in Cells : map'[c].pheromone = map[c].pheromone
       /\ (pc \in {"move", "evaporate"}
             /\ \E c \in Cells, pType \in {P_TYPE_FOOD, P_TYPE_HOME} :
                   Gt(getP(map'[c], pType), getP(map[c], pType)))
            => MoveStep /\ Arrival]_vars

\* A move() of normal movement has been made while a Normal cell holds
\* pheromone.
C18_StepWithTrailPresent ==
    /\ last.op = "move"
    /\ last.next # Null
    /\ last.deposit = <<>>
    /\ Last(antList[last.ant].path) = last.next
    /\ \E c \in Cells :
          map[c].type = TYPE_NORMAL /\ Gt(getP(map[c], P_TYPE_FOOD), Zero)

\* A move() has reset the ant at the path cap.
C18_ResetAtCap ==
    /\ PathBeyondCap
    /\ last.deposit = <<>>
    /\ antList[last.ant].path = <<homePosition>>

\* C19: with Q >= 0 and rho in (0, 1), both channels of every cell are numbers
\* that are not negative, in every reachable state.
C19_NonNegativePheromone ==
    (Q >= 0 /\ Lt(Zero, rho) /\ Lt(rho, Int2Num(1))) =>
        \A c \in DOMAIN map : \A pType \in {P_TYPE_FOOD, P_TYPE_HOME} :
            IsNum(getP(map[c], pType)) /\ Le(Zero, getP(map[c], pType))

\* After a type change and a deposit, a pass has left a Normal cell with a
\* positive level.
C19_EvaporatedDeposit ==
    /\ last.op = "evaporate"
    /\ changes > 0
    /\ \E c \in Cells : \E pType \in {P_TYPE_FOOD, P_TYPE_HOME} :
          map[c].type = TYPE_NORMAL /\ Gt(getP(map[c], pType), Zero)

\* The ant i is CarryingFood after the step: either it was before, and the
\* first cell of its path is the same, or the step is its move() onto a Food
\* cell, which is now the only cell of its path.
CarryingFromFood(i) ==
    /\ i <= Len(antList)
    /\ IF antList[i].status = STATUS_CARRY_FOOD
       THEN antList'[i].path[1] = antList[i].path[1]
       ELSE /\ MoveStep
            /\ i = antIdx + 1
            /\ map[last'.next].type = TYPE_FOOD
            /\ antList'[i].path = <<last'.next>>

\* C20: the path of every ant is non-empty; the first cell of the path of a
\* SeekingFood ant is the home cell of the grid (world.homePosition); the
\* first cell of the path of a CarryingFood ant is the Food cell its move()
\* entered when it became CarryingFood.
C20_PathHead ==
    /\ [](\A i \in 1 .. Len(antList) :
            /\ Len(antList[i].path) >= 1
            /\ antList[i].status = STATUS_FIND_FOOD =>
                  antList[i].path[1] = homePosition)
    /\ [][\A i \in 1 .. Len(antList') :
            antList'[i].status = STATUS_CARRY_FOOD => CarryingFromFood(i)]_vars

\* A CarryingFood ant has walked on from the Food cell at the head of its
\* path.
C20_CarryingOnItsWay ==
    \E i \in 1 .. Len(antList) :
        /\ antList[i].status = STATUS_CARRY_FOOD
        /\ Len(antList[i].path) >= 2
        /\ map[antList[i].path[1]].type = TYPE_FOOD

\* C21: every Normal cell with a positive level in either channel is in the
\* check list, the list the evaporation pass goes through.
C21_PheromoneOnListedCells ==
    \A c \in DOMAIN map :
        (/\ map[c].type = TYPE_NORMAL
         /\ \E pType \in {P_TYPE_FOOD, P_TYPE_HOME} : Gt(getP(map[c], pType), Zero))
        => c \in CellsOf(checkList)

\* A Normal cell that was traversed, and so listed, before it received its
\* deposit holds pheromone and is listed once.
C21_TrailCellListed ==
    /\ last.op = "move"
    /\ last.deposit # <<>>
    /\ \E c \in CellsOf(last.deposit) :
          /\ map[c].type = TYPE_NORMAL
          /\ Gt(getP(map[c], last.pType), Zero)
          /\ c \in CellsOf(last.checkList)
          /\ Cardinality({j \in 1 .. Len(checkList) : checkList[j] = c}) = 1

\* C22: isSimulationStarted implies isSettingsApplied, which implies a created
\* world; as long as the settings are not applied or the start button is not
\* clicked, no ant has been created or moved, no pass has run and _run is not
\* inside a tick that runs the simulation.
C22_NothingRunsBeforeStart ==
    /\ isSimulationStarted => isSettingsApplied
    /\ isSettingsApplied => world
    /\ ~(isSettingsApplied /\ isSimulationStarted) =>
          /\ antList = <<>>
          /\ moves = 0
          /\ ticks = 0
          /\ evaporated = 0
          /\ pc = "idle"
          /\ last.op \notin {"move", "evaporate"}
          /\ \A c \in DOMAIN map : map[c].opacity = Int2Num(1)

\* The start button has been clicked after the settings were applied, and a
\* tick has run its pass.
C22_StartedAfterSettings ==
    /\ isSimulationStarted
    /\ isSettingsApplied
    /\ ticks > 0
    /\ evaporated = 1
    /\ pc = "idle"

\* The settings are applied and a cell has been edited, the start button not
\* yet clicked: every tick so far has skipped the simulation.
C22_EditedBeforeStart ==
    /\ isSettingsApplied
    /\ ~isSimulationStarted
    /\ changes > 0

\* C23: the last cell of the path of every ant, the home cell it is reset to
\* included, is not a Barrier.
C23_NeverOnBarrier ==
    \A i \in 1 .. Len(antList) :
        map[Last(antList[i].path)].type # TYPE_BARRIER

=============================================================================
